---- MODULE Spec2Model ----
(***************************************************************************)
(* Event registration web application (src/app.py): a Flask application    *)
(* over one SQLite database with two tables, EVENTS and PARTICIPANTS, an   *)
(* admin session flag and a public, token-addressed registration form.     *)
(*                                                                         *)
(* Strings are sequences of one-character strings, so that strip(),        *)
(* lower(), len() and the e-mail regular expression are computed on the    *)
(* characters as the code computes them.                                   *)
(***************************************************************************)
EXTENDS Integers, Sequences, FiniteSets, TLC

(***************************************************************************)
(* Bounds of the model.                                                    *)
(***************************************************************************)
\* Number of requests that can be in flight (between two of their database
\* connections) at the same time under Spec.
NumProcs == 1
\* The same under SpecRace and SpecPair.
NumRaceProcs == 2
\* Number of EVENTS rows a database left by an older version holds.
MaxLegacyEvents == 1
\* Number of EVENTS rows ever inserted (AUTOINCREMENT ids 1..MaxEvents).
MaxEvents == 2
\* Number of PARTICIPANTS rows ever inserted (AUTOINCREMENT ids).
MaxParticipants == 2

Procs == 1..NumProcs
RaceProcs == 1..NumRaceProcs

(***************************************************************************)
(* Characters and the string functions of the handlers.                    *)
(***************************************************************************)
UpperLetters == <<"A","B","C","D","E","F","G","H","I","J","K","L","M",
                  "N","O","P","Q","R","S","T","U","V","W","X","Y","Z">>
LowerLetters == <<"a","b","c","d","e","f","g","h","i","j","k","l","m",
                  "n","o","p","q","r","s","t","u","v","w","x","y","z">>
Digits == {"0","1","2","3","4","5","6","7","8","9"}
Whitespace == {" "}

Range(s) == {s[i] : i \in DOMAIN s}
Letters == Range(UpperLetters) \cup Range(LowerLetters)

\* str.lower() on one character
LowerChar(c) ==
    IF c \in Range(UpperLetters)
    THEN LowerLetters[CHOOSE i \in DOMAIN UpperLetters : UpperLetters[i] = c]
    ELSE c

\* str.lower()
Lower(s) == [i \in DOMAIN s |-> LowerChar(s[i])]

RECURSIVE LStrip(_)
LStrip(s) == IF s # <<>> /\ Head(s) \in Whitespace THEN LStrip(Tail(s)) ELSE s

RECURSIVE RStrip(_)
RStrip(s) ==
    IF s # <<>> /\ s[Len(s)] \in Whitespace
    THEN RStrip(SubSeq(s, 1, Len(s) - 1))
    ELSE s

\* str.strip()
Strip(s) == RStrip(LStrip(s))

AllIn(s, chars) == \A i \in DOMAIN s : s[i] \in chars

\* The character classes of the pattern of is_valid_email.
LocalChars == Letters \cup Digits \cup {".", "_", "%", "+", "-"}
DomainChars == Letters \cup Digits \cup {".", "-"}

\* re.match(r'^[a-zA-Z0-9._%+-]+@[a-zA-Z0-9.-]+\.[a-zA-Z]{2,}$', email):
\* some "@" at position a and some "." at position d split the string into a
\* non-empty local part, a non-empty domain and a top-level part of at least
\* two letters.
is_valid_email(email) ==
    \E a \in DOMAIN email : \E d \in DOMAIN email :
        /\ a < d
        /\ email[a] = "@"
        /\ email[d] = "."
        /\ a > 1
        /\ AllIn(SubSeq(email, 1, a - 1), LocalChars)
        /\ d > a + 1
        /\ AllIn(SubSeq(email, a + 1, d - 1), DomainChars)
        /\ Len(email) - d >= 2
        /\ AllIn(SubSeq(email, d + 1, Len(email)), Letters)


(***************************************************************************)
(* Configuration (src/app.py:34-35) and the values requests carry.         *)
(***************************************************************************)
ADMIN_USERNAME == <<"a","d","m","i","n">>
ADMIN_PASSWORD == <<"a","d","m","i","n","1","2","3">>

\* request.form['username'] / ['password'] of a login POST
Usernames == {ADMIN_USERNAME, <<" ">> \o ADMIN_USERNAME \o <<" ">>, <<"r","o","o","t">>}
Passwords == {ADMIN_PASSWORD, ADMIN_PASSWORD \o <<" ">>}

\* request.form['name'] / ['date'] of a create_event POST
EventNames == {<<" ","H","D"," ">>, <<"D","a","y">>}
EventDates == {<<" ">>, <<"2","5">>}

\* request.form['name'] / ['email'] / ['college'] of a registration POST
EmailA == <<"a","@","b",".","c","o">>
EmailAUp == <<" ","A","@","B",".","C","O"," ">>
EmailB == <<"c","@","b",".","c","o">>
EmailBad == <<"a","@","b",".","c">>
PartNames == {<<" ","A"," ">>, <<"A","l">>}
PartEmails == {EmailA, EmailAUp, EmailB, EmailBad}
PartColleges == {<<" ","M">>, <<"M","I","T">>}
Forms == [name : PartNames, email : PartEmails, college : PartColleges]

\* request.args['search'] of view_participants
Searches == {<<>>, <<" ","A","@">>, <<"_","@">>}

\* A request without form fields (request.form.get(..., '') gives '')
NoForm == [name |-> <<>>, email |-> <<>>, college |-> <<>>]

Methods == {"GET", "POST"}

\* The values secrets.token_urlsafe(16) can return.
Tokens == {"t1", "t2"}
\* SQL NULL in the registration_token column
NULL == "NULL"

EventIds == 1..MaxEvents
ParticipantIds == 1..MaxParticipants

(***************************************************************************)
(* State.                                                                  *)
(*   phase          "boot" while init_db runs, "serving" afterwards        *)
(*   schema         "fresh": EVENTS created by init_db (token column,      *)
(*                  UNIQUE); "legacy": EVENTS predates the token column;   *)
(*                  "migrated": column added by ALTER TABLE, not UNIQUE    *)
(*   events         rows of EVENTS, [id, name, date, token]                *)
(*   participants   rows of PARTICIPANTS, [id, event_id, name, email,      *)
(*                  college]                                               *)
(*   eventSeq, participantSeq   the AUTOINCREMENT sequences                *)
(*   session        the admin browser's session: key -> value              *)
(*   pc, local      per in-flight request: position and local variables    *)
(*   last           the response of the request that completed last        *)
(*   outcome        history, kept under SpecPair only: the response each   *)
(*                  of the two registration requests got                   *)
(***************************************************************************)
VARIABLES phase, schema, events, participants, eventSeq, participantSeq,
          session, pc, local, last, outcome

vars == <<phase, schema, events, participants, eventSeq, participantSeq,
          session, pc, local, last, outcome>>

db == <<schema, events, participants, eventSeq, participantSeq>>

NoEvent == [id |-> 0, name |-> <<>>, date |-> <<>>, token |-> NULL]
NoLocal == [event_id |-> 0, token |-> NULL, name |-> <<>>, email |-> <<>>, college |-> <<>>]
EmptySession == [k \in {} |-> <<>>]

\* What a handler returns: redirect(url_for(endpoint, ...)) or
\* render_template(template, ...), or the 500 page for an uncaught exception.
Redirect(endpoint) == [kind |-> "redirect", to |-> endpoint, event_id |-> 0, token |-> NULL, count |-> 0]
RedirectEvent(endpoint, event_id) == [Redirect(endpoint) EXCEPT !.event_id = event_id]
RedirectToken(endpoint, token) == [Redirect(endpoint) EXCEPT !.token = token]
Render(template) == [kind |-> "render", to |-> template, event_id |-> 0, token |-> NULL, count |-> 0]
Http500 == [kind |-> "error", to |-> "500", event_id |-> 0, token |-> NULL, count |-> 0]

\* A response: the handler, what it returned and the message it flashed.
Response(op, resp, flash) == [op |-> op, resp |-> resp, flash |-> flash]
NoResponse == Response("none", Render("none"), "none")

Min(S) == CHOOSE x \in S : \A y \in S : x <= y

(***************************************************************************)
(* Database helpers.                                                       *)
(***************************************************************************)
\* PRAGMA foreign_keys is never set on a connection (get_db_connection), and
\* sqlite3 leaves it off: the FOREIGN KEY clause of PARTICIPANTS is not
\* enforced.
ForeignKeysOn == FALSE

HasTokenColumn == schema # "legacy"
TokenIsUnique == schema = "fresh"

\* secrets.token_urlsafe(16): any value of its range
generate_registration_token == Tokens

get_event_by_id(event_id) ==
    IF \E e \in events : e.id = event_id
    THEN CHOOSE e \in events : e.id = event_id
    ELSE NoEvent

\* SELECT * FROM EVENTS WHERE registration_token = ? ... fetchone(): the
\* first matching row in rowid order (NULL matches nothing).
get_event_by_token(token) ==
    LET hits == {e \in events : e.token # NULL /\ e.token = token}
    IN  IF hits = {} THEN NoEvent
        ELSE CHOOSE e \in hits : e.id = Min({h.id : h \in hits})

\* SELECT id FROM PARTICIPANTS WHERE email = ? AND event_id = ?
participant_exists_in_event(email, event_id) ==
    \E r \in participants : r.email = email /\ r.event_id = event_id

get_participant_count(event_id) ==
    Cardinality({r \in participants : r.event_id = event_id})

\* login_required without its session test: every request is let through.
login_required_Always(s) == TRUE

\* decorated_function of login_required: TRUE when the request is let through
login_required(s) == "admin_logged_in" \in DOMAIN s

(***************************************************************************)
(* Initial state: a database file that init_db is about to open, either    *)
(* new or left by a version without the token column.                      *)
(***************************************************************************)
LegacyRows(n) == {[id |-> i, name |-> <<"D","a","y">>, date |-> <<"2","5">>, token |-> NULL] : i \in 1..n}

Init ==
    /\ phase = "boot"
    /\ \E sc \in {"fresh", "legacy"} : \E n \in 0..MaxLegacyEvents :
          /\ sc = "fresh" => n = 0
          /\ schema = sc
          /\ events = LegacyRows(n)
          /\ eventSeq = n
    /\ participants = {}
    /\ participantSeq = 0
    /\ session = EmptySession
    /\ pc = [p \in Procs |-> "idle"]
    /\ local = [p \in Procs |-> NoLocal]
    /\ last = NoResponse
    /\ outcome = <<>>

(***************************************************************************)
(* Startup: init_db -> migrate_add_registration_token.                     *)
(***************************************************************************)
\* The backfill loop without its UPDATE: no row is given a token.
Backfill_None(assign) == events

\* The rows after the backfill loop with the tokens 'assign' draws.
Backfill(assign) ==
    {IF e.token = NULL THEN [e EXCEPT !.token = assign[e.id]] ELSE e : e \in events}

TokensDistinct(rows) ==
    \A e1 \in rows : \A e2 \in rows :
        (e1.id # e2.id /\ e1.token # NULL) => e1.token # e2.token

\* fault: where a sqlite3.Error is raised, if anywhere ("none", "alter": up to
\* and including ALTER TABLE; "backfill": in the UPDATE loop or its commit).
migrate_add_registration_token ==
    /\ phase = "boot"
    /\ phase' = "serving"
    /\ \E fault \in {"none", "alter", "backfill"} :
       \E assign \in [{e.id : e \in {x \in events : x.token = NULL}} -> generate_registration_token] :
          IF fault = "alter"
          THEN /\ UNCHANGED <<schema, events>>
               /\ last' = Response("migrate", Render("none"), "migration_error")
          ELSE /\ schema' = IF schema = "legacy" THEN "migrated" ELSE schema
               /\ IF fault = "backfill" \/ (TokenIsUnique /\ ~TokensDistinct(Backfill(assign)))
                  THEN /\ UNCHANGED events
                       /\ last' = Response("migrate", Render("none"), "migration_error")
                  ELSE /\ events' = Backfill(assign)
                       /\ last' = Response("migrate", Render("none"), "none")
    /\ UNCHANGED <<participants, eventSeq, participantSeq, session, pc, local>>

\* The process is stopped and started again (no request in flight).
Restart ==
    /\ phase = "serving"
    /\ \A p \in DOMAIN pc : pc[p] = "idle"
    /\ phase' = "boot"
    /\ UNCHANGED <<db, session, pc, local, last>>

(***************************************************************************)
(* Authentication routes.                                                  *)
(***************************************************************************)
\* The comparison of login without its password half.
CredentialsMatch_UsernameOnly(username, password) == username = ADMIN_USERNAME

\* username == ADMIN_USERNAME and password == ADMIN_PASSWORD
CredentialsMatch(username, password) ==
    username = ADMIN_USERNAME /\ password = ADMIN_PASSWORD

login(method, form_username, form_password) ==
    /\ phase = "serving"
    /\ LET username == Strip(form_username)
           password == form_password
       IN  IF "admin_logged_in" \in DOMAIN session
           THEN /\ UNCHANGED session
                /\ last' = Response("login", Redirect("dashboard"), "none")
           ELSE IF method = "POST"
           THEN IF CredentialsMatch(username, password)
                THEN /\ session' = [k \in DOMAIN session \cup {"admin_logged_in", "admin_username"} |->
                                       IF k = "admin_logged_in" THEN <<"True">>
                                       ELSE IF k = "admin_username" THEN username
                                       ELSE session[k]]
                     /\ last' = Response("login", Redirect("dashboard"), "welcome")
                ELSE /\ UNCHANGED session
                     /\ last' = Response("login", Redirect("login"), "invalid_credentials")
           ELSE /\ UNCHANGED session
                /\ last' = Response("login", Render("login.html"), "none")
    /\ UNCHANGED <<phase, db, pc, local>>

\* session.clear()
logout ==
    /\ phase = "serving"
    /\ session' = EmptySession
    /\ last' = Response("logout", Redirect("login"), "logged_out")
    /\ UNCHANGED <<phase, db, pc, local>>

(***************************************************************************)
(* Admin routes.  Each is wrapped by login_required, which looks at the    *)
(* session the request carries before the handler runs.                    *)
(***************************************************************************)
LoginRedirect(op) == Response(op, Redirect("login"), "please_log_in")

dashboard ==
    /\ phase = "serving"
    /\ last' = IF ~login_required(session)
               THEN LoginRedirect("dashboard")
               ELSE Response("dashboard", Render("dashboard.html"), "none")
    /\ UNCHANGED <<phase, db, session, pc, local>>

\* The row create_event's INSERT adds, or err when the statement raises:
\* with the token column absent the first INSERT raises OperationalError
\* naming registration_token and the fallback INSERT leaves the token NULL;
\* with the UNIQUE column a token already in use raises IntegrityError.
EventInsert(name, date, token) ==
    IF ~HasTokenColumn
    THEN [err |-> FALSE, row |-> [id |-> eventSeq + 1, name |-> name, date |-> date, token |-> NULL]]
    ELSE IF TokenIsUnique /\ \E e \in events : e.token = token
    THEN [err |-> TRUE, row |-> NoEvent]
    ELSE [err |-> FALSE, row |-> [id |-> eventSeq + 1, name |-> name, date |-> date, token |-> token]]

create_event(method, form_name, form_date) ==
    /\ phase = "serving"
    /\ IF ~login_required(session)
       THEN /\ last' = LoginRedirect("create_event")
            /\ UNCHANGED <<events, eventSeq>>
       ELSE IF method = "GET"
       THEN /\ last' = Response("create_event", Render("create_event.html"), "none")
            /\ UNCHANGED <<events, eventSeq>>
       ELSE LET name == Strip(form_name)
                date == Strip(form_date)
            IN  IF name = <<>> \/ Len(name) < 3
                THEN /\ last' = Response("create_event", Redirect("create_event"), "name_error")
                     /\ UNCHANGED <<events, eventSeq>>
                ELSE IF date = <<>>
                THEN /\ last' = Response("create_event", Redirect("create_event"), "date_error")
                     /\ UNCHANGED <<events, eventSeq>>
                ELSE \E registration_token \in generate_registration_token : \E fault \in BOOLEAN :
                        LET ins == EventInsert(name, date, registration_token)
                        IN  IF fault \/ ins.err
                            THEN /\ last' = Response("create_event", Redirect("create_event"), "db_error")
                                 /\ UNCHANGED <<events, eventSeq>>
                            ELSE /\ eventSeq < MaxEvents
                                 /\ events' = events \cup {ins.row}
                                 /\ eventSeq' = ins.row.id
                                 /\ last' = Response("create_event", Redirect("dashboard"), "created")
    /\ UNCHANGED <<phase, schema, participants, participantSeq, session, pc, local>>

\* DELETE FROM PARTICIPANTS without its WHERE clause.
ParticipantsAfterDeleteEvent_All(event_id) == {}

\* DELETE FROM PARTICIPANTS WHERE event_id = ?
ParticipantsAfterDeleteEvent(event_id) == {r \in participants : r.event_id # event_id}
\* DELETE FROM EVENTS WHERE id = ?
EventsAfterDeleteEvent(event_id) == {e \in events : e.id # event_id}

\* delete_event up to get_event_by_id (its own connection)
delete_event_lookup(p, event_id) ==
    /\ phase = "serving"
    /\ pc[p] = "idle"
    /\ IF ~login_required(session)
       THEN /\ last' = LoginRedirect("delete_event")
            /\ UNCHANGED <<pc, local>>
       ELSE IF get_event_by_id(event_id).id = 0
       THEN /\ last' = Response("delete_event", Redirect("dashboard"), "event_not_found")
            /\ UNCHANGED <<pc, local>>
       ELSE /\ pc' = [pc EXCEPT ![p] = "delete_event_txn"]
            /\ local' = [local EXCEPT ![p] = [NoLocal EXCEPT !.event_id = event_id]]
            /\ UNCHANGED last
    /\ UNCHANGED <<phase, db, session>>

\* delete_event's transaction: both DELETEs and the commit, or nothing when
\* a sqlite3.Error is raised before the commit completes.
delete_event_txn(p) ==
    /\ pc[p] = "delete_event_txn"
    /\ \E fault \in BOOLEAN :
          IF fault
          THEN /\ UNCHANGED <<events, participants>>
               /\ last' = Response("delete_event", Redirect("dashboard"), "db_error")
          ELSE /\ participants' = ParticipantsAfterDeleteEvent(local[p].event_id)
               /\ events' = EventsAfterDeleteEvent(local[p].event_id)
               /\ last' = Response("delete_event", Redirect("dashboard"), "deleted")
    /\ pc' = [pc EXCEPT ![p] = "idle"]
    /\ local' = [local EXCEPT ![p] = NoLocal]
    /\ UNCHANGED <<phase, schema, eventSeq, participantSeq, session>>

RECURSIVE Like(_, _)
\* s LIKE pat: "%" stands for any run of characters, "_" for any one
\* character (both sides are lower-cased before they get here).
Like(s, pat) ==
    IF pat = <<>> THEN s = <<>>
    ELSE IF Head(pat) = "%" THEN Like(s, Tail(pat)) \/ (s # <<>> /\ Like(Tail(s), pat))
    ELSE s # <<>> /\ (Head(pat) = "_" \/ Head(pat) = Head(s)) /\ Like(Tail(s), Tail(pat))

\* The SELECT of view_participants without event_id = ?.
ParticipantsOf_AnyEvent(event_id, search_query) ==
    {r \in participants :
        search_query # <<>> =>
              LET pat == <<"%">> \o search_query \o <<"%">>
              IN  Like(Lower(r.name), pat) \/ Like(Lower(r.email), pat)}

\* The rows view_participants selects (search_query is stripped and lowered).
ParticipantsOf(event_id, search_query) ==
    {r \in participants :
        /\ r.event_id = event_id
        /\ search_query # <<>> =>
              LET pat == <<"%">> \o search_query \o <<"%">>
              IN  Like(Lower(r.name), pat) \/ Like(Lower(r.email), pat)}

view_participants(event_id, search) ==
    /\ phase = "serving"
    /\ IF ~login_required(session)
       THEN last' = LoginRedirect("view_participants")
       ELSE IF get_event_by_id(event_id).id = 0
       THEN last' = Response("view_participants", Redirect("dashboard"), "event_not_found")
       ELSE \E fault \in BOOLEAN :
               IF fault
               THEN last' = Response("view_participants", Render("participants.html"), "db_error")
               ELSE IF ~HasTokenColumn
               THEN \* event['registration_token'] raises IndexError, not caught
                    last' = Response("view_participants", Http500, "none")
               ELSE last' = Response("view_participants",
                                     [Render("participants.html") EXCEPT
                                         !.count = Cardinality(ParticipantsOf(event_id, Lower(Strip(search))))],
                                     "none")
    /\ UNCHANGED <<phase, db, session, pc, local>>

\* The DELETE of delete_participant without AND event_id = ?.
ParticipantsAfterDelete_AnyEvent(event_id, participant_id) ==
    {r \in participants : r.id # participant_id}

\* DELETE FROM PARTICIPANTS WHERE id = ? AND event_id = ?
ParticipantsAfterDelete(event_id, participant_id) ==
    {r \in participants : ~(r.id = participant_id /\ r.event_id = event_id)}

delete_participant(event_id, participant_id) ==
    /\ phase = "serving"
    /\ IF ~login_required(session)
       THEN /\ last' = LoginRedirect("delete_participant")
            /\ UNCHANGED participants
       ELSE \E fault \in BOOLEAN :
               IF fault
               THEN /\ UNCHANGED participants
                    /\ last' = Response("delete_participant", RedirectEvent("view_participants", event_id), "db_error")
               ELSE /\ participants' = ParticipantsAfterDelete(event_id, participant_id)
                    /\ last' = Response("delete_participant", RedirectEvent("view_participants", event_id), "removed")
    /\ UNCHANGED <<phase, schema, events, eventSeq, participantSeq, session, pc, local>>

(***************************************************************************)
(* Public registration: /register/<token>.                                 *)
(***************************************************************************)
\* The checks of public_register before the database is asked: the flashed
\* error of the first that fails, or "none".
FormFailure(name, email) ==
    IF name = <<>> \/ Len(name) < 2 THEN "name_error"
    ELSE IF email = <<>> \/ ~is_valid_email(email) THEN "email_error"
    ELSE "none"

\* The two checks in the other order: college first, then duplicate.
CheckFailure_CollegeFirst(email, event_id, college) ==
    IF college = <<>> \/ Len(college) < 2 THEN "college_error"
    ELSE IF participant_exists_in_event(email, event_id) THEN "already_registered"
    ELSE "none"

\* The duplicate check and the college check that follows it.
CheckFailure(email, event_id, college) ==
    IF participant_exists_in_event(email, event_id) THEN "already_registered"
    ELSE IF college = <<>> \/ Len(college) < 2 THEN "college_error"
    ELSE "none"

\* public_register up to the e-mail check: get_event_by_token (its own
\* connection), then the checks that read only the form.
public_register_lookup(p, method, token, form) ==
    /\ phase = "serving"
    /\ pc[p] = "idle"
    /\ IF ~HasTokenColumn
       THEN \* the SELECT names a column the table lacks: OperationalError, not caught
            /\ last' = Response("public_register", Http500, "none")
            /\ UNCHANGED <<pc, local>>
       ELSE LET event == get_event_by_token(token)
                name == Strip(form.name)
                email == Lower(Strip(form.email))
                college == Strip(form.college)
            IN  IF event.id = 0
                THEN /\ last' = Response("public_register", Render("error.html"), "invalid_link")
                     /\ UNCHANGED <<pc, local>>
                ELSE IF method = "GET"
                THEN /\ last' = Response("public_register", Render("public_register.html"), "none")
                     /\ UNCHANGED <<pc, local>>
                ELSE IF FormFailure(name, email) # "none"
                THEN /\ last' = Response("public_register", RedirectToken("public_register", token),
                                         FormFailure(name, email))
                     /\ UNCHANGED <<pc, local>>
                ELSE /\ pc' = [pc EXCEPT ![p] = "register_check"]
                     /\ local' = [local EXCEPT ![p] = [event_id |-> event.id, token |-> token, name |-> name,
                                                       email |-> email, college |-> college]]
                     /\ UNCHANGED last
    /\ UNCHANGED <<phase, db, session>>

\* participant_exists_in_event (its own connection), then the college check
public_register_check(p) ==
    /\ pc[p] = "register_check"
    /\ LET l == local[p]
       IN  IF CheckFailure(l.email, l.event_id, l.college) # "none"
           THEN /\ last' = Response("public_register", RedirectToken("public_register", l.token),
                                    CheckFailure(l.email, l.event_id, l.college))
                /\ pc' = [pc EXCEPT ![p] = "idle"]
                /\ local' = [local EXCEPT ![p] = NoLocal]
           ELSE /\ pc' = [pc EXCEPT ![p] = "register_insert"]
                /\ UNCHANGED <<local, last>>
    /\ UNCHANGED <<phase, db, session>>

\* PARTICIPANTS without UNIQUE(event_id, email).
ParticipantInsertViolates_NoUnique(event_id, email) ==
    ForeignKeysOn /\ ~\E e \in events : e.id = event_id

\* The constraints of PARTICIPANTS the INSERT is checked against:
\* UNIQUE(event_id, email), and the foreign key when it is enforced.
ParticipantInsertViolates(event_id, email) ==
    \/ \E r \in participants : r.event_id = event_id /\ r.email = email
    \/ ForeignKeysOn /\ ~\E e \in events : e.id = event_id

\* the INSERT and its commit
public_register_insert(p) ==
    /\ pc[p] = "register_insert"
    /\ LET l == local[p]
       IN  \E fault \in BOOLEAN :
              IF fault
              THEN /\ last' = Response("public_register", RedirectToken("public_register", l.token), "registration_failed")
                   /\ UNCHANGED <<participants, participantSeq>>
              ELSE IF ParticipantInsertViolates(l.event_id, l.email)
              THEN /\ last' = Response("public_register", RedirectToken("public_register", l.token), "already_registered")
                   /\ UNCHANGED <<participants, participantSeq>>
              ELSE /\ participantSeq < MaxParticipants
                   /\ participants' = participants \cup
                         {[id |-> participantSeq + 1, event_id |-> l.event_id, name |-> l.name,
                           email |-> l.email, college |-> l.college]}
                   /\ participantSeq' = participantSeq + 1
                   /\ last' = Response("public_register", Redirect("registration_success"), "none")
    /\ pc' = [pc EXCEPT ![p] = "idle"]
    /\ local' = [local EXCEPT ![p] = NoLocal]
    /\ UNCHANGED <<phase, schema, events, eventSeq, session>>

(***************************************************************************)
(* The application: startup, then requests from the admin's browser and    *)
(* from the public.  The handlers that open one connection are one step;   *)
(* delete_event and public_register are a step per connection, and         *)
(* NumProcs of them can be between two steps at the same time.             *)
(***************************************************************************)
Next ==
    \/ migrate_add_registration_token /\ UNCHANGED outcome
    \/ Restart /\ UNCHANGED outcome
    \/ login("GET", <<>>, <<>>) /\ UNCHANGED outcome
    \/ \E u \in Usernames, pw \in Passwords : login("POST", u, pw) /\ UNCHANGED outcome
    \/ logout /\ UNCHANGED outcome
    \/ dashboard /\ UNCHANGED outcome
    \/ create_event("GET", <<>>, <<>>) /\ UNCHANGED outcome
    \/ \E n \in EventNames, d \in EventDates : create_event("POST", n, d) /\ UNCHANGED outcome
    \/ \E p \in Procs, e \in EventIds : delete_event_lookup(p, e) /\ UNCHANGED outcome
    \/ \E p \in Procs : delete_event_txn(p) /\ UNCHANGED outcome
    \/ \E e \in EventIds, q \in Searches : view_participants(e, q) /\ UNCHANGED outcome
    \/ \E e \in EventIds, r \in ParticipantIds : delete_participant(e, r) /\ UNCHANGED outcome
    \/ \E p \in Procs, t \in Tokens : public_register_lookup(p, "GET", t, NoForm) /\ UNCHANGED outcome
    \/ \E p \in Procs, t \in Tokens, f \in Forms : public_register_lookup(p, "POST", t, f) /\ UNCHANGED outcome
    \/ \E p \in Procs : public_register_check(p) /\ UNCHANGED outcome
    \/ \E p \in Procs : public_register_insert(p) /\ UNCHANGED outcome

Spec == Init /\ [][Next]_vars

(***************************************************************************)
(* SpecRace: the handlers that write PARTICIPANTS, NumRaceProcs requests   *)
(* in flight at the same time, on a database with two events and the admin *)
(* logged in.                                                              *)
(***************************************************************************)
TwoEvents == {[id |-> 1, name |-> <<"D","a","y">>, date |-> <<"2","5">>, token |-> "t1"],
              [id |-> 2, name |-> <<"D","a","y">>, date |-> <<"2","5">>, token |-> "t2"]}

AdminSession == [k \in {"admin_logged_in", "admin_username"} |->
                    IF k = "admin_logged_in" THEN <<"True">> ELSE ADMIN_USERNAME]

\* Registration forms that pass the name, e-mail and college checks.
ValidForms == [name : {<<"A","l">>}, email : {EmailA, EmailAUp, EmailB}, college : {<<"M","I","T">>}]

InitRace ==
    /\ phase = "serving"
    /\ schema = "fresh"
    /\ events = TwoEvents
    /\ eventSeq = 2
    /\ participants = {}
    /\ participantSeq = 0
    /\ session = AdminSession
    /\ pc = [p \in RaceProcs |-> "idle"]
    /\ local = [p \in RaceProcs |-> NoLocal]
    /\ last = NoResponse
    /\ outcome = <<>>

NextRace ==
    \/ \E p \in RaceProcs, t \in Tokens, f \in ValidForms : public_register_lookup(p, "POST", t, f) /\ UNCHANGED outcome
    \/ \E p \in RaceProcs : public_register_check(p) /\ UNCHANGED outcome
    \/ \E p \in RaceProcs : public_register_insert(p) /\ UNCHANGED outcome
    \/ \E p \in RaceProcs, e \in 1..2 : delete_event_lookup(p, e) /\ UNCHANGED outcome
    \/ \E p \in RaceProcs : delete_event_txn(p) /\ UNCHANGED outcome
    \/ \E e \in 1..2, r \in ParticipantIds : delete_participant(e, r) /\ UNCHANGED outcome

SpecRace == InitRace /\ [][NextRace]_vars

(***************************************************************************)
(* SpecPair: two registration POSTs for event 1 whose e-mails are equal    *)
(* after strip().lower(), each sent once, in every interleaving of their   *)
(* steps; nothing else runs.  outcome keeps the response of each.          *)
(***************************************************************************)
PairProcs == {1, 2}
PairForms == [name : {<<"A","l">>}, email : {EmailA, EmailAUp}, college : {<<"M","I","T">>}]

InitPair ==
    /\ phase = "serving"
    /\ schema \in {"fresh", "migrated"}
    /\ events \in {{e \in TwoEvents : e.id = 1}, TwoEvents}
    /\ eventSeq = 2
    /\ participants = {}
    /\ participantSeq = 0
    /\ session \in {EmptySession, AdminSession}
    /\ pc = [p \in PairProcs |-> "idle"]
    /\ local = [p \in PairProcs |-> NoLocal]
    /\ last = NoResponse
    /\ outcome = [p \in PairProcs |-> NoResponse]

\* The response of p's request, once it has one.
Record(p) == outcome' = [outcome EXCEPT ![p] = IF pc'[p] = "idle" THEN last' ELSE @]

NextPair ==
    \/ \E p \in PairProcs, f \in PairForms :
          /\ outcome[p] = NoResponse
          /\ public_register_lookup(p, "POST", "t1", f)
          /\ Record(p)
    \/ \E p \in PairProcs : public_register_check(p) /\ Record(p)
    \/ \E p \in PairProcs : public_register_insert(p) /\ Record(p)

SpecPair == InitPair /\ [][NextPair]_vars

(***************************************************************************)
(* SpecRegister: the public registration page alone, on a database that    *)
(* holds two events: every form, every token, one request in flight per    *)
(* slot.                                                                   *)
(***************************************************************************)
InitRegister ==
    /\ phase = "serving"
    /\ schema \in {"fresh", "migrated"}
    /\ events = TwoEvents
    /\ eventSeq = 2
    /\ participants = {}
    /\ participantSeq = 0
    /\ session = EmptySession
    /\ pc = [p \in Procs |-> "idle"]
    /\ local = [p \in Procs |-> NoLocal]
    /\ last = NoResponse
    /\ outcome = <<>>

NextRegister ==
    \/ \E p \in Procs, t \in Tokens : public_register_lookup(p, "GET", t, NoForm) /\ UNCHANGED outcome
    \/ \E p \in Procs, t \in Tokens, f \in Forms : public_register_lookup(p, "POST", t, f) /\ UNCHANGED outcome
    \/ \E p \in Procs : public_register_check(p) /\ UNCHANGED outcome
    \/ \E p \in Procs : public_register_insert(p) /\ UNCHANGED outcome

SpecRegister == InitRegister /\ [][NextRegister]_vars

(***************************************************************************)
(* Properties.                                                             *)
(***************************************************************************)
Registered(r) == r.resp.kind = "redirect" /\ r.resp.to = "registration_success"
RowsOf(event_id, email) ==
    {r \in participants : r.event_id = event_id /\ Lower(r.email) = Lower(email)}

C2_UniqueEmailPerEvent ==
    \A r1 \in participants : \A r2 \in participants :
        (r1.event_id = r2.event_id /\ Lower(r1.email) = Lower(r2.email)) => r1.id = r2.id

\* C2, second half: the same e-mail is registered under two different events.
C2_Witness ==
    \E r1 \in participants : \E r2 \in participants :
        /\ r1.event_id # r2.event_id
        /\ Lower(r1.email) = Lower(r2.email)

\* C3: a create_event POST that passes validation (trimmed name of at least
\* 3 characters, non-empty date) and reports success leaves a new EVENTS row
\* whose registration_token is non-null, non-empty and different from the
\* token of every other existing event.
C3_CreatedEventHasUniqueToken ==
    [][\A n \in EventNames : \A d \in EventDates :
          (/\ create_event("POST", n, d)
           /\ Len(Strip(n)) >= 3
           /\ Strip(d) # <<>>
           /\ last'.flash = "created")
          => \E e \in events' \ events :
                /\ e.token # NULL
                /\ e.token # ""
                /\ \A o \in events' : o.id # e.id => o.token # e.token]_vars

\* C4: a successful delete_event(E) removes E and every participant row of
\* E and leaves every other event and every other participant row as it
\* was; a delete_event(E) that fails with a storage error removes nothing.
C4_DeleteEventFrame ==
    [][\A p \in DOMAIN pc :
          delete_event_txn(p) =>
             LET E == local[p].event_id
             IN  /\ last'.flash = "deleted" =>
                       /\ \A e \in events' : e.id # E
                       /\ \A r \in participants' : r.event_id # E
                       /\ \A e \in events : e.id # E => e \in events'
                       /\ \A r \in participants : r.event_id # E => r \in participants'
                       /\ events' \subseteq events
                       /\ participants' \subseteq participants
                 /\ last'.flash = "db_error" =>
                       /\ events' = events
                       /\ participants' = participants
                 /\ last'.flash \in {"deleted", "db_error"}]_vars

\* An event was deleted together with a participant while another event
\* and its participant stayed.
C4_Witness ==
    /\ last.op = "delete_event"
    /\ last.flash = "deleted"
    /\ Cardinality(events) = 1
    /\ participantSeq = 2
    /\ Cardinality(participants) = 1
    /\ \A r \in participants : \E e \in events : e.id = r.event_id

\* C5: every PARTICIPANTS row's event_id is the id of an existing EVENTS row.
C5_NoOrphanParticipants ==
    \A r \in participants : \E e \in events : e.id = r.event_id

LoggedIn == "admin_logged_in" \in DOMAIN session

\* What C6 asks of a step: the redirect to the login page, tables untouched.
SentToLogin ==
    /\ last'.resp = Redirect("login")
    /\ events' = events
    /\ participants' = participants

\* C6: every admin operation (dashboard, create_event, delete_event,
\* view_participants, delete_participant) invoked on a session without the
\* admin_logged_in flag returns the redirect to the login page and leaves
\* EVENTS and PARTICIPANTS unchanged.
C6_AdminNeedsSession ==
    [][~LoggedIn =>
          /\ dashboard => SentToLogin
          /\ create_event("GET", <<>>, <<>>) => SentToLogin
          /\ \A n \in EventNames : \A d \in EventDates : create_event("POST", n, d) => SentToLogin
          /\ \A p \in DOMAIN pc : \A e \in EventIds :
                delete_event_lookup(p, e) => (SentToLogin /\ pc'[p] = "idle")
          /\ \A e \in EventIds : \A q \in Searches : view_participants(e, q) => SentToLogin
          /\ \A e \in EventIds : \A r \in ParticipantIds : delete_participant(e, r) => SentToLogin]_vars

\* A delete_participant request without a session was sent to the login
\* page while there were a participant and an event to delete.
C6_Witness ==
    /\ ~LoggedIn
    /\ last.op = "delete_participant"
    /\ last.resp = Redirect("login")
    /\ participants # {}
    /\ events # {}

\* C7 as claimed: a login POST sets the flag exactly when its username and
\* password equal ADMIN_USERNAME and ADMIN_PASSWORD (or the flag was set
\* already), no other request sets it, and logout empties the session; so
\* the flag is set exactly when such a POST came since the last logout.
C7_FlagIffExactCredentials ==
    [][/\ \A u \in Usernames : \A pw \in Passwords :
             login("POST", u, pw) =>
                (LoggedIn' <=> (LoggedIn \/ (u = ADMIN_USERNAME /\ pw = ADMIN_PASSWORD)))
       /\ login("GET", <<>>, <<>>) => (LoggedIn' <=> LoggedIn)
       /\ logout => session' = EmptySession
       /\ (LoggedIn' # LoggedIn) =>
             \/ logout
             \/ \E u \in Usernames : \E pw \in Passwords : login("POST", u, pw)]_vars

\* C7 as the code has it: the username is compared after strip(), the
\* password as sent.
C7_FlagIffStrippedCredentials ==
    [][/\ \A u \in Usernames : \A pw \in Passwords :
             login("POST", u, pw) =>
                (LoggedIn' <=> (LoggedIn \/ (Strip(u) = ADMIN_USERNAME /\ pw = ADMIN_PASSWORD)))
       /\ login("GET", <<>>, <<>>) => (LoggedIn' <=> LoggedIn)
       /\ logout => session' = EmptySession
       /\ (LoggedIn' # LoggedIn) =>
             \/ logout
             \/ \E u \in Usernames : \E pw \in Passwords : login("POST", u, pw)]_vars

\* A login has set the flag.
C7_Witness ==
    /\ LoggedIn
    /\ last.op = "login"
    /\ last.flash = "welcome"

RegisterErrors == {"name_error", "email_error", "already_registered", "college_error",
                   "registration_failed", "invalid_link"}

\* C8: a registration POST on a valid token reports the first failing check
\* in the order name (trimmed length >= 2), e-mail format, duplicate e-mail
\* for this event, college (trimmed length >= 2); no check inserts a row,
\* and a row is inserted only when all four pass.
C8_ValidationOrder ==
    [][/\ \A p \in DOMAIN pc : \A t \in Tokens : \A f \in Forms :
             (public_register_lookup(p, "POST", t, f) /\ \E e \in events : e.token = t) =>
                /\ participants' = participants
                /\ IF Len(Strip(f.name)) < 2
                   THEN pc'[p] = "idle" /\ last'.flash = "name_error"
                   ELSE IF ~is_valid_email(Lower(Strip(f.email)))
                   THEN pc'[p] = "idle" /\ last'.flash = "email_error"
                   ELSE pc'[p] = "register_check" /\ last' = last
       /\ \A p \in DOMAIN pc :
             public_register_check(p) =>
                /\ participants' = participants
                /\ IF \E r \in participants : r.event_id = local[p].event_id /\ r.email = local[p].email
                   THEN pc'[p] = "idle" /\ last'.flash = "already_registered"
                   ELSE IF Len(local[p].college) < 2
                   THEN pc'[p] = "idle" /\ last'.flash = "college_error"
                   ELSE pc'[p] = "register_insert" /\ last' = last
       /\ \A p \in DOMAIN pc :
             public_register_insert(p) =>
                /\ participants' # participants =>
                      /\ Len(local[p].name) >= 2
                      /\ is_valid_email(local[p].email)
                      /\ ~\E r \in participants : r.event_id = local[p].event_id /\ r.email = local[p].email
                      /\ Len(local[p].college) >= 2
                /\ last'.flash \in RegisterErrors => participants' = participants]_vars

\* A registration POST that has passed the name and e-mail checks carries an
\* e-mail already registered for its event and a college that is too short.
C8_Witness ==
    \E p \in DOMAIN pc :
        /\ pc[p] = "register_check"
        /\ \E r \in participants : r.event_id = local[p].event_id /\ r.email = local[p].email
        /\ Len(local[p].college) < 2

\* C9: a GET or POST to /register/<token> with a token that no existing
\* event has ends in the invalid-link error page, whatever its form fields,
\* and leaves EVENTS and PARTICIPANTS unchanged.
C9_UnknownTokenIsInvalidLink ==
    [][\A p \in DOMAIN pc : \A m \in Methods : \A t \in Tokens : \A f \in Forms \cup {NoForm} :
          (public_register_lookup(p, m, t, f) /\ ~\E e \in events : e.token = t) =>
             /\ last'.resp = Render("error.html")
             /\ last'.flash = "invalid_link"
             /\ pc'[p] = "idle"
             /\ events' = events
             /\ participants' = participants]_vars

\* C10: delete_participant(eventId, participantId) removes at most the row
\* with that id and that event_id, removes nothing when there is no such
\* row, leaves all events and all other participants unchanged, and (for a
\* logged-in admin) returns the redirect to that event's participant list.
C10_DeleteParticipantFrame ==
    [][\A e \in EventIds : \A r \in ParticipantIds :
          delete_participant(e, r) =>
             /\ events' = events
             /\ participants' \subseteq participants
             /\ \A x \in participants \ participants' : x.id = r /\ x.event_id = e
             /\ (~\E x \in participants : x.id = r /\ x.event_id = e) => participants' = participants
             /\ LoggedIn => last'.resp = RedirectEvent("view_participants", e)]_vars

\* A participant was removed by delete_participant while another one and
\* every event stayed.
C10_Witness ==
    /\ last.op = "delete_participant"
    /\ last.flash = "removed"
    /\ participantSeq = 2
    /\ Cardinality(participants) = 1
    /\ Cardinality(events) = eventSeq

HasToken(e) == e.token # NULL /\ e.token # ""

\* C11: a pass of migrate_add_registration_token is swallowed whatever
\* happens in it (the application serves afterwards) and adds or removes no
\* row; events that had a token keep their row unchanged; a pass that ends
\* without a storage error leaves the token column in place and every event
\* with a non-null, non-empty token; a pass that ends with a storage error
\* changes no row; a pass on a database whose events all have a token (as a
\* second pass finds it) changes no row.  And whatever the passes did, a
\* logged-in create_event POST with a valid name and date can succeed
\* (while an unused token and an id within the bounds remain).
C11_BackfillIdempotentComplete ==
    /\ [][migrate_add_registration_token =>
            /\ phase' = "serving"
            /\ participants' = participants
            /\ {e.id : e \in events'} = {e.id : e \in events}
            /\ Cardinality(events') = Cardinality(events)
            /\ \A e \in events : HasToken(e) => e \in events'
            /\ last'.flash = "none" =>
                  /\ schema' # "legacy"
                  /\ \A e \in events' : HasToken(e)
            /\ last'.flash = "migration_error" => events' = events
            /\ (HasTokenColumn /\ \A e \in events : HasToken(e)) =>
                  (events' = events /\ schema' = schema)]_vars
    /\ [](( /\ phase = "serving"
            /\ LoggedIn
            /\ eventSeq < MaxEvents
            /\ \E t \in Tokens : \A e \in events : e.token # t)
          => ENABLED (/\ create_event("POST", <<"D","a","y">>, <<"2","5">>)
                      /\ last'.flash = "created"
                      /\ Cardinality(events') = Cardinality(events) + 1))

\* A pass has ended without error on a database left by an older version
\* that holds an older row and a row created since, both now with a token.
C11_Witness ==
    /\ last.op = "migrate"
    /\ last.flash = "none"
    /\ schema = "migrated"
    /\ Cardinality(events) = 2
    /\ \A e \in events : HasToken(e)

\* q occurs in s, a "_" of q standing for any one character (q without "%").
OccursIn(q, s) ==
    \E i \in 0..(Len(s) - Len(q)) : \A j \in 1..Len(q) : q[j] = "_" \/ q[j] = s[i + j]

\* The rows of event_id a search for q (stripped, lower-cased) is about.
Matching(event_id, q) ==
    {r \in participants :
        /\ r.event_id = event_id
        /\ q = <<>> \/ OccursIn(q, Lower(r.name)) \/ OccursIn(q, Lower(r.email))}

\* A logged-in view_participants(e, q) step on an existing event that
\* renders the participant list.
ViewRendered(e, q) ==
    /\ LoggedIn
    /\ \E ev \in events : ev.id = e
    /\ last'.resp.to = "participants.html"
    /\ view_participants(e, q)

\* C12 as claimed: the participant_count a view_participants request on an
\* existing event reports, with or without a search filter, equals
\* get_participant_count(event_id) (taken here for the views that render
\* without a database error).
C12_CountEqualsParticipantCount ==
    [][\A e \in EventIds : \A q \in Searches :
          (ViewRendered(e, q) /\ last'.flash = "none") =>
             last'.resp.count = get_participant_count(e)]_vars

\* C12 as the code has it: the participant_count reported is the number of
\* rows of the event that the search selects, so it equals
\* get_participant_count(event_id) without a filter and never exceeds it;
\* a view whose query raised sqlite3.Error reports 0.
C12_CountIsSelectedRows ==
    [][\A e \in EventIds : \A q \in Searches :
          ViewRendered(e, q) =>
             /\ last'.flash = "none" =>
                   last'.resp.count = Cardinality(Matching(e, Lower(Strip(q))))
             /\ (last'.flash = "none" /\ Strip(q) = <<>>) =>
                   last'.resp.count = get_participant_count(e)
             /\ last'.flash = "db_error" => last'.resp.count = 0
             /\ last'.resp.count <= get_participant_count(e)]_vars

\* A filtered view of an event with two participants has reported one.
C12_Witness ==
    /\ last.op = "view_participants"
    /\ last.flash = "none"
    /\ last.resp.to = "participants.html"
    /\ last.resp.count = 1
    /\ \E e \in events : get_participant_count(e.id) = 2

====
